---- MODULE Spec2Model ----
(***************************************************************************)
(* Model of scraper.js: the run controller runScraper, the crawl           *)
(* orchestrator scrapeConfig, the catalog store products.json and          *)
(* loadCachedProducts.                                                     *)
(*                                                                         *)
(* A run is a sequence of steps, one per suspension point (await) of the   *)
(* code.  What the environment decides (does the browser launch, does a    *)
(* page open, what does the page list, does the write succeed) is a        *)
(* nondeterministic choice of the step.                                    *)
(***************************************************************************)
EXTENDS Integers, Sequences, FiniteSets, TLC

\* ------------------------------------------------------------------ bounds
NumConfigs == 2      \* entries of SCRAPER_CONFIGS
MaxScraped == 2      \* products the sites list in one run, over all pages
MaxInit    == 2      \* records in the store before the first run
MaxRuns    == 2      \* runs started in one behaviour

\* ------------------------------------------------------- program constants
FirstScrapedId == 1000   \* let idCounter = 1000
IdGap          == 10     \* idCounter += products.length + 10
UrlsPerConfig  == 2      \* every entry of SCRAPER_CONFIGS lists two urls

\* The callers of runScraper and loadCachedProducts (the HTTP handlers).
Procs == {"r1", "r2"}

\* --------------------------------------------------------------- the data
\* Raw names a product node can yield: getText gives '' when nothing matches.
RawNames == {"", "Aviator"}

\* The ids the curation process has given to manual records.
InitIds == {7, FirstScrapedId}

\* One entry of SCRAPER_CONFIGS.
Descriptor(k, en) ==
    [brand |-> k, enabled |-> en,
     urls |-> [j \in 1..UrlsPerConfig |-> <<k, j>>]]

Configurations ==
    { [k \in 1..NumConfigs |-> Descriptor(k, f[k])] :
          f \in [1..NumConfigs -> BOOLEAN] }

\* A product record as the store holds it: the fields the reconciliation reads
\* or sets per run (the other fields are functions of the raw item).
Record(id, brand, name, at, manual) ==
    [id |-> id, brand |-> brand, name |-> name, scrapedAt |-> at, manual |-> manual]

\* Records of the store before the first run: written by the curation
\* process (manual: true), or left by an earlier scrape (no field manual,
\* capture time 0).
InitRecords ==
    { Record(id, 0, "Aviator", 0, "true") : id \in InitIds }
        \cup { Record(FirstScrapedId, 0, "Aviator", 0, "absent") }

SeqsUpTo(S, n) == UNION { [1..k -> S] : k \in 0..n }

AbsentStore  == [kind |-> "absent",  value |-> <<>>]
CorruptStore == [kind |-> "corrupt", value |-> <<>>]
ArrayStore(recs) == [kind |-> "array", value |-> recs]

\* A catalog lists a record once.
NoRepeat(s) == \A i, j \in DOMAIN s : i # j => s[i] # s[j]

InitStores ==
    {AbsentStore, CorruptStore}
        \cup { ArrayStore(s) : s \in { q \in SeqsUpTo(InitRecords, MaxInit) : NoRepeat(q) } }

\* What page.evaluate returns for a listing page.
ItemLists == SeqsUpTo(RawNames, MaxScraped)


\* ------------------------------------------------------- the raw item fields
\* A string is the list of its characters.
UpperCase == <<"A", "B", "C", "D", "E", "F", "G", "H", "I", "J", "K", "L", "M", "N", "O", "P", "Q", "R", "S", "T", "U", "V", "W", "X", "Y", "Z">>
LowerCase == <<"a", "b", "c", "d", "e", "f", "g", "h", "i", "j", "k", "l", "m", "n", "o", "p", "q", "r", "s", "t", "u", "v", "w", "x", "y", "z">>
DigitChars == <<"0", "1", "2", "3", "4", "5", "6", "7", "8", "9">>
Digits == { DigitChars[i] : i \in DOMAIN DigitChars }

\* bounds of the raw fields
MaxPriceLen == 3     \* characters of a raw price text
MaxChunks   == 2     \* words of a raw color text
MaxPathLen  == 2     \* characters of an image attribute after its prefix

\* const COLOR_MAP = { 'black': 'Black', ... }, in the order Object.entries gives
COLOR_MAP ==
    <<
       [key |-> <<"b", "l", "a", "c", "k">>, val |-> "Black"],
       [key |-> <<"d", "a", "r", "k">>, val |-> "Black"],
       [key |-> <<"g", "o", "l", "d">>, val |-> "Gold"],
       [key |-> <<"y", "e", "l", "l", "o", "w">>, val |-> "Gold"],
       [key |-> <<"s", "i", "l", "v", "e", "r">>, val |-> "Silver"],
       [key |-> <<"c", "h", "r", "o", "m", "e">>, val |-> "Silver"],
       [key |-> <<"g", "u", "n", "m", "e", "t", "a", "l">>, val |-> "Silver"],
       [key |-> <<"g", "r", "e", "y">>, val |-> "Silver"],
       [key |-> <<"g", "r", "a", "y">>, val |-> "Silver"],
       [key |-> <<"t", "o", "r", "t", "o", "i", "s", "e">>, val |-> "Tortoise"],
       [key |-> <<"h", "a", "v", "a", "n", "a">>, val |-> "Tortoise"],
       [key |-> <<"b", "r", "o", "w", "n">>, val |-> "Tortoise"],
       [key |-> <<"b", "l", "u", "e">>, val |-> "Blue"],
       [key |-> <<"n", "a", "v", "y">>, val |-> "Blue"]
    >>

\* Raw price texts: every text of a few characters (digits, separators, a
\* character that is neither), and the texts the documentation names.
PriceChars == {"0", "1", "5", "9", ",", ".", "x"}
RawPrices ==
    SeqsUpTo(PriceChars, MaxPriceLen)
        \cup { <<"1", ",", "2", "9", "9", ".", "5", "0">>,
               <<"C", "a", "l", "l", " ", "f", "o", "r", " ", "p", "r", "i", "c", "e">> }

\* Raw color texts: up to MaxChunks words, written as the sites write them.
ColorChunks ==
    {
      <<"B", "l", "a", "c", "k">>,
      <<"d", "a", "r", "k">>,
      <<"G", "o", "l", "d">>,
      <<"y", "e", "l", "l", "o", "w">>,
      <<"S", "I", "L", "V", "E", "R">>,
      <<"c", "h", "r", "o", "m", "e">>,
      <<"G", "u", "n", "m", "e", "t", "a", "l">>,
      <<"g", "r", "e", "y">>,
      <<"G", "r", "a", "y">>,
      <<"T", "o", "r", "t", "o", "i", "s", "e">>,
      <<"h", "a", "v", "a", "n", "a">>,
      <<"b", "r", "o", "w", "n">>,
      <<"B", "l", "u", "e">>,
      <<"N", "A", "V", "Y">>,
      <<" ">>,
      <<"R", "e", "d">>,
      <<"m", "a", "t", "t", "e">>
    }
RECURSIVE Concat(_)
Concat(ss) == IF ss = <<>> THEN <<>> ELSE Head(ss) \o Concat(Tail(ss))
RawColors == { Concat(ss) : ss \in SeqsUpTo(ColorChunks, MaxChunks) }

\* Raw image attributes (src or data-src): empty, absolute, protocol-relative,
\* root-relative, path-relative.
ImagePrefixes ==
    { <<>>, <<"h", "t", "t", "p", "s", ":", "/", "/">>, <<"h", "t", "t", "p", ":", "/", "/">>, <<"/", "/">>, <<"/">>, <<".", ".", "/">> }
RawImages ==
    { pre \o rest : pre \in ImagePrefixes, rest \in SeqsUpTo({"h", "/", "a"}, MaxPathLen) }

\* The bundle of one product node.
Item(name, price, color, image) ==
    [rawName |-> name, rawPrice |-> price, rawColor |-> color, imageUrl |-> image]

\* One field is varied at a time.
RawItems ==
    { Item(n, pr, <<>>, <<>>) : n \in RawNames, pr \in RawPrices }
        \cup { Item("Aviator", <<>>, c, <<>>) : c \in RawColors }
        \cup { Item("Aviator", <<>>, <<>>, im) : im \in RawImages }

NoItem   == Item("", <<>>, <<>>, <<>>)
NoFields == [state |-> "none"]
Skipped  == [state |-> "skipped"]

VARIABLES
    store,            \* products.json: absent, corrupt (unreadable or unparsable) or an array
    SCRAPER_CONFIGS,  \* the configured descriptors
    now,              \* the clock new Date() reads; it advances with every run started
    pc,               \* per caller: the statement the call is at
    startKind,        \* runScraper: what the read of the store found ("absent", "corrupt", "array")
    existing,         \* runScraper: let existing
    browser,          \* runScraper: const browser ("none", "open", "closed")
    allScraped,       \* runScraper: let allScraped
    idCounter,        \* runScraper: let idCounter
    ci,               \* runScraper: position of "for (const config of SCRAPER_CONFIGS)"
    products,         \* scrapeConfig: const products
    scIdCounter,      \* scrapeConfig: let idCounter
    ui,               \* scrapeConfig: position of "for (const url of config.urls)"
    page,             \* scrapeConfig: const page ("none", "open")
    pageErr,          \* scrapeConfig: the err the catch block holds ("none" outside it)
    result,           \* the call's outcome: <<"none">>, <<"value", v>>, <<"error", where>>
    \* history variables
    manual0,          \* the manual records of the store before the first run
    initManualOnly,   \* the store before the first run was an array of manual records only
    lastOkAt,         \* the clock of the most recent run that returned (0: before the first)
    repeat,           \* the run that has just returned gathered what the run before it gathered
    torn,             \* a store write has failed part-way
    visited,          \* per run: the listing pages a page resource was opened for
    storeOps,         \* per run: the accesses to products.json the run has made, in order
    lastWriter,       \* the caller whose run wrote the store last ("none": no run has)
    overwritten,      \* the last write replaced a store whose manual records the run had not read
    \* one iteration of "for (const item of items)"
    rawItem,          \* the bundle page.evaluate returned for a product node
    fields            \* the fields the iteration computed from it (NoFields: not yet)

vars == <<store, SCRAPER_CONFIGS, now, pc, startKind, existing, browser, allScraped,
          idCounter, ci, products, scIdCounter, ui, page, pageErr, result,
          manual0, initManualOnly, lastOkAt, repeat, torn, visited,
          storeOps, lastWriter, overwritten, rawItem, fields>>

runVars == <<startKind, existing, browser, allScraped, idCounter, ci, products,
             scIdCounter, ui, page, pageErr>>
histVars == <<manual0, initManualOnly, lastOkAt, repeat, torn, visited>>
ioVars   == <<storeOps, lastWriter, overwritten>>
itemVars == <<rawItem, fields>>

\* ------------------------------------------------------- the store as a file
\* fs.existsSync(CACHE_FILE)
existsSync(st) == st.kind # "absent"

\* JSON.parse(fs.readFileSync(CACHE_FILE, 'utf8')): the array, or a throw.
ReadParse(st) ==
    IF st.kind = "array" THEN <<"value", st.value>> ELSE <<"error", "parse">>

\* A faulty variant: the filter lets every record through.
FilterManual_keepAll(raw) == raw

\* raw.filter(p => p.manual === true)
FilterManual(raw) == SelectSeq(raw, LAMBDA p : p.manual = "true")

\* A faulty variant: the parsed array is kept whole, without the filter.
LoadExisting_noFilter(st) ==
    IF existsSync(st)
    THEN LET r == ReadParse(st)
         IN IF r[1] = "value" THEN <<"value", r[2]>> ELSE <<"value", <<>>>>
    ELSE <<"value", <<>>>>

\* A faulty variant: no try/catch around the read, a store that does not parse throws.
LoadExisting_noCatch(st) ==
    IF existsSync(st)
    THEN LET r == ReadParse(st)
         IN IF r[1] = "value" THEN <<"value", FilterManual(r[2])>> ELSE r
    ELSE <<"value", <<>>>>

\* runScraper, "Load existing manually-added products": let existing = [];
\* if (existsSync) { try { existing = parse(...).filter(...) } catch (_) {} }
LoadExisting(st) ==
    IF existsSync(st)
    THEN LET r == ReadParse(st)
         IN IF r[1] = "value" THEN <<"value", FilterManual(r[2])>> ELSE <<"value", <<>>>>
    ELSE <<"value", <<>>>>

\* A faulty variant: the merged catalog is the scraped records alone.
Merge_scrapedOnly(ex, scraped) == scraped

\* const merged = [...existing, ...allScraped]
Merge(ex, scraped) == ex \o scraped

\* A faulty variant: no try/catch, a store that does not parse throws.
loadCachedProducts_noCatch(st) ==
    IF ~existsSync(st) THEN <<"value", <<>>>> ELSE ReadParse(st)

\* loadCachedProducts()
loadCachedProducts(st) ==
    IF ~existsSync(st) THEN <<"value", <<>>>>
    ELSE LET r == ReadParse(st)
         IN IF r[1] = "value" THEN r ELSE <<"value", <<>>>>

\* ------------------------------------------------------------ scrapeConfig
\* for (const item of items) { if (!item.rawName) continue; ...
\*   const product = { id: idCounter++, ... }; products.push(product) }
\* A faulty variant: a bundle with an empty name is dropped but takes an id.
RECURSIVE FoldItems_countsEmpty(_, _, _, _, _)
FoldItems_countsEmpty(config, items, acc, counter, at) ==
    IF items = <<>> THEN [products |-> acc, idCounter |-> counter]
    ELSE IF Head(items) = ""
         THEN FoldItems_countsEmpty(config, Tail(items), acc, counter + 1, at)
         ELSE FoldItems_countsEmpty(config, Tail(items),
                        Append(acc, Record(counter, config.brand, Head(items), at, "absent")),
                        counter + 1, at)

RECURSIVE FoldItems(_, _, _, _, _)
FoldItems(config, items, acc, counter, at) ==
    IF items = <<>> THEN [products |-> acc, idCounter |-> counter]
    ELSE IF Head(items) = ""
         THEN FoldItems(config, Tail(items), acc, counter, at)
         ELSE FoldItems(config, Tail(items),
                        Append(acc, Record(counter, config.brand, Head(items), at, "absent")),
                        counter + 1, at)

\* -------------------------------------------- the field functions of an item
\* A JavaScript number: a whole number here, or NaN.
Num(n) == <<"number", n>>
NaN    == <<"NaN", 0>>

\* raw.toLowerCase()
toLowerCase(s) ==
    [i \in DOMAIN s |->
        IF \E k \in DOMAIN UpperCase : UpperCase[k] = s[i]
        THEN LowerCase[CHOOSE k \in DOMAIN UpperCase : UpperCase[k] = s[i]]
        ELSE s[i]]

\* s.includes(key)
includes(s, key) ==
    \E i \in 1..(Len(s) - Len(key) + 1) : SubSeq(s, i, i + Len(key) - 1) = key

\* s.startsWith(prefix)
startsWith(s, prefix) ==
    Len(s) >= Len(prefix) /\ SubSeq(s, 1, Len(prefix)) = prefix

\* for (const [key, val] of Object.entries(COLOR_MAP)) { if (lower.includes(key)) return val; }
\* return 'Black'
RECURSIVE FirstMatch(_, _)
FirstMatch(lower, entries) ==
    IF entries = <<>> THEN "Black"
    ELSE IF includes(lower, Head(entries).key) THEN Head(entries).val
         ELSE FirstMatch(lower, Tail(entries))

\* A faulty variant: the raw text is matched as it is, not lower-cased.
normalizeColor_caseSensitive(raw) == FirstMatch(raw, COLOR_MAP)

\* normalizeColor(raw = '')
normalizeColor(raw) == FirstMatch(toLowerCase(raw), COLOR_MAP)

\* raw.replace(/,/g, '')
replaceCommas(s) == SelectSeq(s, LAMBDA c : c # ",")

\* The longest list of characters of S that s starts with.
RECURSIVE LeadingRun(_, _)
LeadingRun(s, S) ==
    IF s = <<>> \/ Head(s) \notin S THEN <<>>
    ELSE <<Head(s)>> \o LeadingRun(Tail(s), S)

\* s.match(/[\d.]+/): the leftmost, longest run of digits and dots; <<>> for null.
RECURSIVE match(_)
match(s) ==
    IF s = <<>> THEN <<>>
    ELSE IF Head(s) \in Digits \cup {"."} THEN LeadingRun(s, Digits \cup {"."})
         ELSE match(Tail(s))

DigitValue(c) == (CHOOSE k \in DOMAIN DigitChars : DigitChars[k] = c) - 1

RECURSIVE Decimal(_, _)
Decimal(ds, acc) ==
    IF ds = <<>> THEN acc ELSE Decimal(Tail(ds), 10 * acc + DigitValue(Head(ds)))

\* parseFloat(m): the longest prefix "digits", "digits.digits", "digits." or
\* ".digits" of m, as its whole part and its decimals; NaN when m starts with none.
parseFloat(m) ==
    LET whole == LeadingRun(m, Digits)
        rest  == SubSeq(m, Len(whole) + 1, Len(m))
        decs  == IF rest # <<>> /\ Head(rest) = "." THEN LeadingRun(Tail(rest), Digits)
                 ELSE <<>>
    IN IF whole = <<>> /\ decs = <<>> THEN [nan |-> TRUE, whole |-> 0, decs |-> <<>>]
       ELSE [nan |-> FALSE, whole |-> Decimal(whole, 0), decs |-> decs]

\* Math.round(x) for x >= 0 or NaN: the nearest whole number, a half goes up.
MathRound(x) ==
    IF x.nan THEN NaN
    ELSE Num(x.whole + (IF x.decs # <<>> /\ DigitValue(x.decs[1]) >= 5 THEN 1 ELSE 0))

\* parsePrice(raw = '')
parsePrice(raw) ==
    LET m == match(replaceCommas(raw))
    IN IF m = <<>> THEN Num(0) ELSE MathRound(parseFloat(m))

\* price || 0
OrZero(x) == IF x = NaN \/ x = Num(0) THEN Num(0) ELSE x

\* let imageUrl = item.imageUrl || '';
\* if (imageUrl && imageUrl.startsWith('//')) imageUrl = 'https:' + imageUrl
absoluteImageUrl(raw) ==
    IF raw # <<>> /\ startsWith(raw, <<"/", "/">>)
    THEN <<"h", "t", "t", "p", "s", ":">> \o raw
    ELSE raw

\* ------------------------------------------------------------ positions
Config(p) == SCRAPER_CONFIGS[ci[p]]
Url(p)    == Config(p).urls[ui[p]]

Idle(p) == pc[p] = "idle"

\* The records of a store a reader can parse.
StoreRecords(st) == IF st.kind = "array" THEN st.value ELSE <<>>

\* The manual records of a list, and the others, in the list's order.
ManualRecords(recs) == SelectSeq(recs, LAMBDA r : r.manual = "true")
NonManual(recs) == SelectSeq(recs, LAMBDA r : r.manual # "true")

\* Two record lists that differ in their capture times at most.
SameButTime(a, b) ==
    /\ Len(a) = Len(b)
    /\ \A i \in 1..Len(a) : [a[i] EXCEPT !.scrapedAt = 0] = [b[i] EXCEPT !.scrapedAt = 0]

ResetRun(p) ==
    /\ startKind'   = [startKind   EXCEPT ![p] = "none"]
    /\ existing'    = [existing    EXCEPT ![p] = <<>>]
    /\ browser'     = [browser     EXCEPT ![p] = "none"]
    /\ allScraped'  = [allScraped  EXCEPT ![p] = <<>>]
    /\ idCounter'   = [idCounter   EXCEPT ![p] = 0]
    /\ ci'          = [ci          EXCEPT ![p] = 0]
    /\ products'    = [products    EXCEPT ![p] = <<>>]
    /\ scIdCounter' = [scIdCounter EXCEPT ![p] = 0]
    /\ ui'          = [ui          EXCEPT ![p] = 0]
    /\ page'        = [page        EXCEPT ![p] = "none"]
    /\ pageErr'     = [pageErr     EXCEPT ![p] = "none"]

\* No call is under way.
Quiescent ==
    /\ now = 0
    /\ pc = [p \in Procs |-> "idle"]
    /\ startKind = [p \in Procs |-> "none"]
    /\ existing = [p \in Procs |-> <<>>]
    /\ browser = [p \in Procs |-> "none"]
    /\ allScraped = [p \in Procs |-> <<>>]
    /\ idCounter = [p \in Procs |-> 0]
    /\ ci = [p \in Procs |-> 0]
    /\ products = [p \in Procs |-> <<>>]
    /\ scIdCounter = [p \in Procs |-> 0]
    /\ ui = [p \in Procs |-> 0]
    /\ page = [p \in Procs |-> "none"]
    /\ pageErr = [p \in Procs |-> "none"]
    /\ result = [p \in Procs |-> <<"none">>]
    /\ manual0 = ManualRecords(StoreRecords(store))
    /\ initManualOnly = (store.kind = "array" /\ NonManual(store.value) = <<>>)
    /\ lastOkAt = 0
    /\ repeat = FALSE
    /\ torn = FALSE
    /\ visited = [p \in Procs |-> {}]
    /\ storeOps = [p \in Procs |-> <<>>]
    /\ lastWriter = "none"
    /\ overwritten = FALSE

Init ==
    /\ store \in InitStores
    /\ SCRAPER_CONFIGS \in Configurations
    /\ Quiescent
    /\ rawItem = NoItem
    /\ fields = NoFields

\* A step that rejects the promise runScraper returned: the frames of
\* runScraper and scrapeConfig are unwound, their locals are gone; the browser
\* and the page are resources of the browser process and stay as they are.
Reject(p, where) ==
    /\ pc' = [pc EXCEPT ![p] = "failed"]
    /\ result' = [result EXCEPT ![p] = <<"error", where>>]
    /\ existing'    = [existing    EXCEPT ![p] = <<>>]
    /\ allScraped'  = [allScraped  EXCEPT ![p] = <<>>]
    /\ idCounter'   = [idCounter   EXCEPT ![p] = 0]
    /\ ci'          = [ci          EXCEPT ![p] = 0]
    /\ products'    = [products    EXCEPT ![p] = <<>>]
    /\ scIdCounter' = [scIdCounter EXCEPT ![p] = 0]
    /\ ui'          = [ui          EXCEPT ![p] = 0]
    /\ pageErr'     = [pageErr     EXCEPT ![p] = "none"]

\* ---------------------------------------------------------------- runScraper
\* A caller enters runScraper; the code up to the first await reads the store.
BeginRun(p) ==
    /\ Idle(p)
    /\ now < MaxRuns
    /\ now' = now + 1
    /\ startKind' = [startKind EXCEPT ![p] = store.kind]
    /\ LET r == LoadExisting(store)
       IN IF r[1] = "value"
          THEN /\ existing' = [existing EXCEPT ![p] = r[2]]
               /\ pc' = [pc EXCEPT ![p] = "launch"]
               /\ result' = result
          ELSE /\ existing' = existing
               /\ Reject(p, "read")
    /\ repeat' = FALSE
    /\ visited' = [visited EXCEPT ![p] = {}]
    /\ UNCHANGED <<store, SCRAPER_CONFIGS, browser, allScraped, idCounter, ci,
                   products, scIdCounter, ui, page, pageErr,
                   manual0, initManualOnly, lastOkAt, torn>>
    /\ storeOps' = [storeOps EXCEPT ![p] = Append(@, "read")]
    /\ UNCHANGED <<lastWriter, overwritten, itemVars>>

\* Runs follow one another: a run starts when no other call is under way.
StartRun(p) ==
    /\ \A q \in Procs : Idle(q)
    /\ BeginRun(p)

\* const browser = await chromium.launch(...); let allScraped = []; let idCounter = 1000
LaunchOK(p) ==
    /\ pc[p] = "launch"
    /\ browser' = [browser EXCEPT ![p] = "open"]
    /\ allScraped' = [allScraped EXCEPT ![p] = <<>>]
    /\ idCounter' = [idCounter EXCEPT ![p] = FirstScrapedId]
    /\ ci' = [ci EXCEPT ![p] = 1]
    /\ pc' = [pc EXCEPT ![p] = "configs"]
    /\ UNCHANGED <<store, SCRAPER_CONFIGS, now, startKind, existing, products,
                   scIdCounter, ui, page, pageErr, result, histVars>>
    /\ UNCHANGED <<ioVars, itemVars>>

\* chromium.launch rejects: runScraper rejects.
LaunchFail(p) ==
    /\ pc[p] = "launch"
    /\ Reject(p, "launch")
    /\ UNCHANGED <<store, SCRAPER_CONFIGS, now, startKind, browser, page, histVars>>
    /\ UNCHANGED <<ioVars, itemVars>>

\* A faulty variant: a skipped descriptor still takes its gap of ids.
SkipDisabled_consumesGap(p) ==
    /\ pc[p] = "configs"
    /\ ci[p] <= Len(SCRAPER_CONFIGS)
    /\ ~Config(p).enabled
    /\ ci' = [ci EXCEPT ![p] = @ + 1]
    /\ idCounter' = [idCounter EXCEPT ![p] = @ + IdGap]
    /\ UNCHANGED <<store, SCRAPER_CONFIGS, now, pc, startKind, existing, browser,
                   allScraped, products, scIdCounter, ui, page, pageErr,
                   result, histVars>>
    /\ UNCHANGED <<ioVars, itemVars>>

\* if (!config.enabled) { ...; continue; }
SkipDisabled(p) ==
    /\ pc[p] = "configs"
    /\ ci[p] <= Len(SCRAPER_CONFIGS)
    /\ ~Config(p).enabled
    /\ ci' = [ci EXCEPT ![p] = @ + 1]
    /\ UNCHANGED <<store, SCRAPER_CONFIGS, now, pc, startKind, existing, browser,
                   allScraped, idCounter, products, scIdCounter, ui, page, pageErr,
                   result, histVars>>
    /\ UNCHANGED <<ioVars, itemVars>>

\* scrapeConfig(browser, config, idCounter): const products = []; let idCounter = startId
EnterScrapeConfig(p) ==
    /\ pc[p] = "configs"
    /\ ci[p] <= Len(SCRAPER_CONFIGS)
    /\ Config(p).enabled
    /\ products' = [products EXCEPT ![p] = <<>>]
    /\ scIdCounter' = [scIdCounter EXCEPT ![p] = idCounter[p]]
    /\ ui' = [ui EXCEPT ![p] = 1]
    /\ pc' = [pc EXCEPT ![p] = "urls"]
    /\ UNCHANGED <<store, SCRAPER_CONFIGS, now, startKind, existing, browser,
                   allScraped, idCounter, ci, page, pageErr, result, histVars>>
    /\ UNCHANGED <<ioVars, itemVars>>

\* const page = await browser.newPage()
NewPageOK(p) ==
    /\ pc[p] = "urls"
    /\ ui[p] <= Len(Config(p).urls)
    /\ page' = [page EXCEPT ![p] = "open"]
    /\ visited' = [visited EXCEPT ![p] = @ \cup {Url(p)}]
    /\ pc' = [pc EXCEPT ![p] = "goto"]
    /\ UNCHANGED <<store, SCRAPER_CONFIGS, now, startKind, existing, browser,
                   allScraped, idCounter, ci, products, scIdCounter, ui, pageErr, result,
                   manual0, initManualOnly, lastOkAt, repeat, torn>>
    /\ UNCHANGED <<ioVars, itemVars>>

\* browser.newPage() rejects, outside the try: scrapeConfig and runScraper reject.
NewPageFail(p) ==
    /\ pc[p] = "urls"
    /\ ui[p] <= Len(Config(p).urls)
    /\ Reject(p, "newPage")
    /\ UNCHANGED <<store, SCRAPER_CONFIGS, now, startKind, browser, page, histVars>>
    /\ UNCHANGED <<ioVars, itemVars>>

\* await page.goto(url, { ..., timeout: 30000 }); await page.waitForTimeout(2000)
GotoOK(p) ==
    /\ pc[p] = "goto"
    /\ pc' = [pc EXCEPT ![p] = "scroll"]
    /\ UNCHANGED <<store, SCRAPER_CONFIGS, now, runVars, result, histVars>>
    /\ UNCHANGED <<ioVars, itemVars>>

\* page.goto throws or times out: catch (err) { console.warn(...) }, then finally.
GotoFail(p) ==
    /\ pc[p] = "goto"
    /\ pageErr' = [pageErr EXCEPT ![p] = "goto"]
    /\ pc' = [pc EXCEPT ![p] = "closePage"]
    /\ UNCHANGED <<store, SCRAPER_CONFIGS, now, startKind, existing, browser,
                   allScraped, idCounter, ci, products, scIdCounter, ui, page, result,
                   histVars>>
    /\ UNCHANGED <<ioVars, itemVars>>

\* await page.evaluate(() => window.scrollTo(...)); await page.waitForTimeout(1000)
ScrollOK(p) ==
    /\ pc[p] = "scroll"
    /\ pc' = [pc EXCEPT ![p] = "extract"]
    /\ UNCHANGED <<store, SCRAPER_CONFIGS, now, runVars, result, histVars>>
    /\ UNCHANGED <<ioVars, itemVars>>

ScrollFail(p) ==
    /\ pc[p] = "scroll"
    /\ pageErr' = [pageErr EXCEPT ![p] = "scroll"]
    /\ pc' = [pc EXCEPT ![p] = "closePage"]
    /\ UNCHANGED <<store, SCRAPER_CONFIGS, now, startKind, existing, browser,
                   allScraped, idCounter, ci, products, scIdCounter, ui, page, result,
                   histVars>>
    /\ UNCHANGED <<ioVars, itemVars>>

\* const items = await page.evaluate(...); for (const item of items) { ... }
ExtractOK(p) ==
    /\ pc[p] = "extract"
    /\ \E items \in ItemLists :
         LET r == FoldItems(Config(p), items, products[p], scIdCounter[p], now)
         IN /\ Len(allScraped[p]) + Len(r.products) <= MaxScraped
            /\ products' = [products EXCEPT ![p] = r.products]
            /\ scIdCounter' = [scIdCounter EXCEPT ![p] = r.idCounter]
    /\ pc' = [pc EXCEPT ![p] = "closePage"]
    /\ UNCHANGED <<store, SCRAPER_CONFIGS, now, startKind, existing, browser,
                   allScraped, idCounter, ci, ui, page, pageErr, result, histVars>>
    /\ UNCHANGED <<ioVars, itemVars>>

ExtractFail(p) ==
    /\ pc[p] = "extract"
    /\ pageErr' = [pageErr EXCEPT ![p] = "extract"]
    /\ pc' = [pc EXCEPT ![p] = "closePage"]
    /\ UNCHANGED <<store, SCRAPER_CONFIGS, now, startKind, existing, browser,
                   allScraped, idCounter, ci, products, scIdCounter, ui, page, result,
                   histVars>>
    /\ UNCHANGED <<ioVars, itemVars>>

\* finally { await page.close(); }  and on to the next url
ClosePageOK(p) ==
    /\ pc[p] = "closePage"
    /\ page' = [page EXCEPT ![p] = "none"]
    /\ pageErr' = [pageErr EXCEPT ![p] = "none"]
    /\ ui' = [ui EXCEPT ![p] = @ + 1]
    /\ pc' = [pc EXCEPT ![p] = "urls"]
    /\ UNCHANGED <<store, SCRAPER_CONFIGS, now, startKind, existing, browser,
                   allScraped, idCounter, ci, products, scIdCounter, result, histVars>>
    /\ UNCHANGED <<ioVars, itemVars>>

\* page.close() rejects inside finally: scrapeConfig and runScraper reject.
\* Whether the page is gone all the same is the browser's business.
ClosePageFail(p) ==
    /\ pc[p] = "closePage"
    /\ page' \in { [page EXCEPT ![p] = s] : s \in {"open", "none"} }
    /\ Reject(p, "closePage")
    /\ UNCHANGED <<store, SCRAPER_CONFIGS, now, startKind, browser, histVars>>
    /\ UNCHANGED <<ioVars, itemVars>>

\* A faulty variant: every descriptor starts from the same id (idCounter is not advanced).
ReturnScrapeConfig_sameStart(p) ==
    /\ pc[p] = "urls"
    /\ ui[p] > Len(Config(p).urls)
    /\ allScraped' = [allScraped EXCEPT ![p] = @ \o products[p]]
    /\ ci' = [ci EXCEPT ![p] = @ + 1]
    /\ products' = [products EXCEPT ![p] = <<>>]
    /\ scIdCounter' = [scIdCounter EXCEPT ![p] = 0]
    /\ ui' = [ui EXCEPT ![p] = 0]
    /\ pc' = [pc EXCEPT ![p] = "configs"]
    /\ UNCHANGED <<store, SCRAPER_CONFIGS, now, startKind, existing, browser, page,
                   idCounter, pageErr, result, histVars>>
    /\ UNCHANGED <<ioVars, itemVars>>

\* A faulty variant: idCounter is advanced by the gap alone, not by products.length + 10.
ReturnScrapeConfig_fixedStride(p) ==
    /\ pc[p] = "urls"
    /\ ui[p] > Len(Config(p).urls)
    /\ allScraped' = [allScraped EXCEPT ![p] = @ \o products[p]]
    /\ idCounter' = [idCounter EXCEPT ![p] = @ + IdGap]
    /\ ci' = [ci EXCEPT ![p] = @ + 1]
    /\ products' = [products EXCEPT ![p] = <<>>]
    /\ scIdCounter' = [scIdCounter EXCEPT ![p] = 0]
    /\ ui' = [ui EXCEPT ![p] = 0]
    /\ pc' = [pc EXCEPT ![p] = "configs"]
    /\ UNCHANGED <<store, SCRAPER_CONFIGS, now, startKind, existing, browser, page,
                   pageErr, result, histVars>>
    /\ UNCHANGED <<ioVars, itemVars>>

\* A faulty variant: the catalog is merged and written after every descriptor.
ReturnScrapeConfig_writesEach(p) ==
    /\ pc[p] = "urls"
    /\ ui[p] > Len(Config(p).urls)
    /\ allScraped' = [allScraped EXCEPT ![p] = @ \o products[p]]
    /\ idCounter' = [idCounter EXCEPT ![p] = @ + Len(products[p]) + IdGap]
    /\ ci' = [ci EXCEPT ![p] = @ + 1]
    /\ products' = [products EXCEPT ![p] = <<>>]
    /\ scIdCounter' = [scIdCounter EXCEPT ![p] = 0]
    /\ ui' = [ui EXCEPT ![p] = 0]
    /\ pc' = [pc EXCEPT ![p] = "configs"]
    /\ store' = ArrayStore(Merge(existing[p], allScraped[p] \o products[p]))
    /\ storeOps' = [storeOps EXCEPT ![p] = Append(@, "write")]
    /\ UNCHANGED <<SCRAPER_CONFIGS, now, startKind, existing, browser, page,
                   pageErr, result, histVars, lastWriter, overwritten, itemVars>>

\* return products;  allScraped.push(...products); idCounter += products.length + 10
ReturnScrapeConfig(p) ==
    /\ pc[p] = "urls"
    /\ ui[p] > Len(Config(p).urls)
    /\ allScraped' = [allScraped EXCEPT ![p] = @ \o products[p]]
    /\ idCounter' = [idCounter EXCEPT ![p] = @ + Len(products[p]) + IdGap]
    /\ ci' = [ci EXCEPT ![p] = @ + 1]
    /\ products' = [products EXCEPT ![p] = <<>>]
    /\ scIdCounter' = [scIdCounter EXCEPT ![p] = 0]
    /\ ui' = [ui EXCEPT ![p] = 0]
    /\ pc' = [pc EXCEPT ![p] = "configs"]
    /\ UNCHANGED <<store, SCRAPER_CONFIGS, now, startKind, existing, browser, page,
                   pageErr, result, histVars>>
    /\ UNCHANGED <<ioVars, itemVars>>

\* await browser.close()
CloseBrowserOK(p) ==
    /\ pc[p] = "configs"
    /\ ci[p] > Len(SCRAPER_CONFIGS)
    /\ browser' = [browser EXCEPT ![p] = "closed"]
    /\ pc' = [pc EXCEPT ![p] = "write"]
    /\ UNCHANGED <<store, SCRAPER_CONFIGS, now, startKind, existing, allScraped,
                   idCounter, ci, products, scIdCounter, ui, page, pageErr, result,
                   histVars>>
    /\ UNCHANGED <<ioVars, itemVars>>

\* A faulty variant: the catalog is written before the browser is closed, so
\* a close that rejects leaves a store the run has already replaced.
CloseBrowserFail_afterWrite(p) ==
    /\ pc[p] = "configs"
    /\ ci[p] > Len(SCRAPER_CONFIGS)
    /\ store' = ArrayStore(Merge(existing[p], allScraped[p]))
    /\ Reject(p, "closeBrowser")
    /\ UNCHANGED <<SCRAPER_CONFIGS, now, startKind, browser, page, histVars>>
    /\ UNCHANGED <<ioVars, itemVars>>

\* browser.close() rejects: runScraper rejects; the browser may or may not be gone.
CloseBrowserFail(p) ==
    /\ pc[p] = "configs"
    /\ ci[p] > Len(SCRAPER_CONFIGS)
    /\ browser' \in { [browser EXCEPT ![p] = s] : s \in {"open", "closed"} }
    /\ Reject(p, "closeBrowser")
    /\ UNCHANGED <<store, SCRAPER_CONFIGS, now, startKind, page, histVars>>
    /\ UNCHANGED <<ioVars, itemVars>>

\* A faulty variant: the manual records are read again from the store at the write.
WriteOK_rereads(p) ==
    /\ pc[p] = "write"
    /\ store' = ArrayStore(Merge(LoadExisting(store)[2], allScraped[p]))
    /\ result' = [result EXCEPT ![p] = <<"value", Merge(LoadExisting(store)[2], allScraped[p])>>]
    /\ lastOkAt' = now
    /\ repeat' = FALSE
    /\ pc' = [pc EXCEPT ![p] = "done"]
    /\ storeOps' = [storeOps EXCEPT ![p] = Append(@, "write")]
    /\ lastWriter' = p
    /\ overwritten' = (ManualRecords(StoreRecords(store)) # existing[p])
    /\ UNCHANGED <<SCRAPER_CONFIGS, now, runVars, manual0, initManualOnly, torn,
                   visited, itemVars>>

\* A faulty variant: the scraped records are appended to what the store holds
\* at the write, instead of replacing it.
WriteOK_appends(p) ==
    /\ pc[p] = "write"
    /\ store' = ArrayStore(StoreRecords(store) \o allScraped[p])
    /\ result' = [result EXCEPT ![p] = <<"value", StoreRecords(store) \o allScraped[p]>>]
    /\ lastOkAt' = now
    /\ repeat' = FALSE
    /\ pc' = [pc EXCEPT ![p] = "done"]
    /\ storeOps' = [storeOps EXCEPT ![p] = Append(@, "write")]
    /\ lastWriter' = p
    /\ overwritten' = (ManualRecords(StoreRecords(store)) # existing[p])
    /\ UNCHANGED <<SCRAPER_CONFIGS, now, runVars, manual0, initManualOnly, torn,
                   visited, itemVars>>

\* const merged = [...existing, ...allScraped];
\* fs.writeFileSync(CACHE_FILE, JSON.stringify(merged, null, 2)); return merged
WriteOK(p) ==
    /\ pc[p] = "write"
    /\ store' = ArrayStore(Merge(existing[p], allScraped[p]))
    /\ result' = [result EXCEPT ![p] = <<"value", Merge(existing[p], allScraped[p])>>]
    /\ lastOkAt' = now
    /\ repeat' = /\ lastOkAt = now - 1
                 /\ store.kind = "array"
                 /\ SameButTime(NonManual(store.value), allScraped[p])
    /\ pc' = [pc EXCEPT ![p] = "done"]
    /\ UNCHANGED <<SCRAPER_CONFIGS, now, runVars, manual0, initManualOnly, torn,
                   visited>>
    /\ storeOps' = [storeOps EXCEPT ![p] = Append(@, "write")]
    /\ lastWriter' = p
    /\ overwritten' = (ManualRecords(StoreRecords(store)) # existing[p])
    /\ UNCHANGED itemVars

\* fs.writeFileSync throws.  The file is as it was (it could not be opened)
\* or holds a prefix of the new text, which does not parse.
WriteFail(p) ==
    /\ pc[p] = "write"
    /\ \/ UNCHANGED <<store, torn>>
       \/ store' = CorruptStore /\ torn' = TRUE
    /\ Reject(p, "write")
    /\ UNCHANGED <<SCRAPER_CONFIGS, now, startKind, browser, page, manual0,
                   initManualOnly, lastOkAt, repeat, visited>>
    /\ storeOps' = [storeOps EXCEPT ![p] = Append(@, "write")]
    /\ UNCHANGED <<lastWriter, overwritten, itemVars>>

\* loadCachedProducts() on a /api/products request.
LoadCached(p) ==
    /\ Idle(p)
    /\ result' = [result EXCEPT ![p] = loadCachedProducts(store)]
    /\ pc' = [pc EXCEPT ![p] = "loaded"]
    /\ UNCHANGED <<store, SCRAPER_CONFIGS, now, runVars, histVars>>
    /\ UNCHANGED <<ioVars, itemVars>>

\* The caller has taken the outcome; the call's frame is gone.
Finish(p) ==
    /\ pc[p] \in {"done", "failed", "loaded"}
    /\ pc' = [pc EXCEPT ![p] = "idle"]
    /\ result' = [result EXCEPT ![p] = <<"none">>]
    /\ ResetRun(p)
    /\ visited' = [visited EXCEPT ![p] = {}]
    /\ UNCHANGED <<store, SCRAPER_CONFIGS, now, manual0, initManualOnly, lastOkAt,
                   repeat, torn>>
    /\ storeOps' = [storeOps EXCEPT ![p] = <<>>]
    /\ UNCHANGED <<lastWriter, overwritten, itemVars>>

\* Runs follow one another: one caller.
Next ==
    \E p \in {"r1"} :
        \/ StartRun(p)
        \/ LaunchOK(p)
        \/ LaunchFail(p)
        \/ SkipDisabled(p)
        \/ EnterScrapeConfig(p)
        \/ NewPageOK(p)
        \/ NewPageFail(p)
        \/ GotoOK(p)
        \/ GotoFail(p)
        \/ ScrollOK(p)
        \/ ScrollFail(p)
        \/ ExtractOK(p)
        \/ ExtractFail(p)
        \/ ClosePageOK(p)
        \/ ClosePageFail(p)
        \/ ReturnScrapeConfig(p)
        \/ CloseBrowserOK(p)
        \/ CloseBrowserFail(p)
        \/ WriteOK(p)
        \/ WriteFail(p)
        \/ LoadCached(p)
        \/ Finish(p)

Spec == Init /\ [][Next]_vars

\* --------------------------------------------------- one item of a listing
crawlVars == <<store, SCRAPER_CONFIGS, now, pc, result, runVars, histVars, ioVars>>

\* if (!item.rawName) continue;
SkipItem ==
    /\ fields = NoFields
    /\ rawItem.rawName = ""
    /\ fields' = Skipped
    /\ UNCHANGED <<rawItem, crawlVars>>

\* const color = ...; const price = parsePrice(item.rawPrice); let imageUrl = ...;
\* const product = { ..., color, price: price || 0, ..., imageUrl, ... }
BuildProduct ==
    /\ fields = NoFields
    /\ rawItem.rawName # ""
    /\ fields' = [state    |-> "built",
                  color    |-> IF rawItem.rawColor # <<>>
                               THEN normalizeColor(rawItem.rawColor) ELSE "Black",
                  parsed   |-> parsePrice(rawItem.rawPrice),
                  price    |-> OrZero(parsePrice(rawItem.rawPrice)),
                  imageUrl |-> absoluteImageUrl(rawItem.imageUrl)]
    /\ UNCHANGED <<rawItem, crawlVars>>

InitItem ==
    /\ store = AbsentStore
    /\ SCRAPER_CONFIGS = [k \in 1..NumConfigs |-> Descriptor(k, TRUE)]
    /\ Quiescent
    /\ rawItem \in RawItems
    /\ fields = NoFields

NextItem == SkipItem \/ BuildProduct

\* The loop body of scrapeConfig on one bundle.
SpecItem == InitItem /\ [][NextItem]_vars

\* ------------------------------------------- another writer of the store
\* The record the curation process adds by hand.
CuratedRecord == Record(8, 0, "Aviator", 0, "true")

Holds(st, rec) == \E i \in DOMAIN StoreRecords(st) : StoreRecords(st)[i] = rec

\* The curation process rewrites products.json with one more manual record,
\* at any moment, also while a run is at an await.
Curate ==
    /\ ~Holds(store, CuratedRecord)
    /\ store' = ArrayStore(Append(StoreRecords(store), CuratedRecord))
    /\ UNCHANGED <<SCRAPER_CONFIGS, now, pc, result, runVars, histVars, ioVars, itemVars>>

\* A store the curation process has put one record in.
CuratedStore == ArrayStore(<<Record(7, 0, "Aviator", 0, "true")>>)

InitCurated == Init /\ store \in {AbsentStore, CuratedStore}

NextCurated == Next \/ Curate

\* Runs that follow one another, and the curation process writing in between.
SpecCurated == InitCurated /\ [][NextCurated]_vars

\* ------------------------------------------------------- overlapping runs
\* Two callers: a run may start while the other is at an await.
\* The callers start one run each, r1 first and r2 at any moment after it,
\* whatever r1 is at.
CallOrder == <<"r1", "r2">>

BeginOverlapped(p) ==
    /\ now < Len(CallOrder)
    /\ CallOrder[now + 1] = p
    /\ BeginRun(p)

NextOverlap ==
    \E p \in Procs :
        \/ BeginOverlapped(p)
        \/ LaunchOK(p)
        \/ SkipDisabled(p)
        \/ EnterScrapeConfig(p)
        \/ NewPageOK(p)
        \/ GotoOK(p)
        \/ GotoFail(p)
        \/ ScrollOK(p)
        \/ ExtractOK(p)
        \/ ClosePageOK(p)
        \/ ReturnScrapeConfig(p)
        \/ CloseBrowserOK(p)
        \/ WriteOK(p)
        \/ Finish(p)

InitOverlap == Init /\ store = CuratedStore

SpecOverlap == InitOverlap /\ [][NextOverlap]_vars

\* ====================================================================
\* Vocabulary of the properties
\* ====================================================================
Ids(recs) == { recs[i].id : i \in DOMAIN recs }

DistinctIds(recs) ==
    \A i, j \in DOMAIN recs : i # j => recs[i].id # recs[j].id

Brands(recs) == { recs[i].brand : i \in DOMAIN recs }

OfBrand(recs, b) == SelectSeq(recs, LAMBDA r : r.brand = b)

Min(S) == CHOOSE x \in S : \A y \in S : x <= y
Max(S) == CHOOSE x \in S : \A y \in S : x >= y

\* A run is over: its promise is settled.
Settled(p) == pc[p] \in {"done", "failed"}

PagesOf(k) == { SCRAPER_CONFIGS[k].urls[j] : j \in DOMAIN SCRAPER_CONFIGS[k].urls }

\* The listing pages of the enabled descriptors, and of the disabled ones.
EnabledPages ==
    UNION { PagesOf(k) : k \in { i \in DOMAIN SCRAPER_CONFIGS : SCRAPER_CONFIGS[i].enabled } }

DisabledPages ==
    UNION { PagesOf(k) : k \in { i \in DOMAIN SCRAPER_CONFIGS : ~SCRAPER_CONFIGS[i].enabled } }

\* The listing pages that come after the page a run is at.
LaterPages(p) ==
    { Config(p).urls[j] : j \in { i \in DOMAIN Config(p).urls : i > ui[p] } }
        \cup UNION { PagesOf(k) : k \in { i \in DOMAIN SCRAPER_CONFIGS :
                                            i > ci[p] /\ SCRAPER_CONFIGS[i].enabled } }

\* The failures a listing page's processing can raise.
PageFailures == {"newPage", "goto", "scroll", "extract", "closePage"}

C2_IdsUniqueAnyStore ==
    \A p \in Procs :
        pc[p] = "done" =>
            /\ DistinctIds(result[p][2])
            /\ DistinctIds(StoreRecords(store))

\* C2 amended: no two records of a returned and persisted merged catalog share
\* an id, provided the manual records of the store have pairwise distinct ids
\* that are all below 1000, the first scraped id.
C2_IdsUnique ==
    (DistinctIds(manual0) /\ \A i \in Ids(manual0) : i < FirstScrapedId) =>
        \A p \in Procs :
            pc[p] = "done" =>
                /\ DistinctIds(result[p][2])
                /\ DistinctIds(StoreRecords(store))

\* A second run has returned a catalog of a manual record and two scraped
\* records of two descriptors.
C2_Witness ==
    /\ pc["r1"] = "done"
    /\ now = 2
    /\ lastOkAt = 2
    /\ manual0 # <<>>
    /\ \A i \in Ids(manual0) : i < FirstScrapedId
    /\ Len(allScraped["r1"]) = 2
    /\ Cardinality(Brands(allScraped["r1"])) = 2
    /\ result["r1"] = <<"value", manual0 \o allScraped["r1"]>>
    /\ DistinctIds(result["r1"][2])

\* -------------------------------------------------------------------- C3
\* C3: at every point, every record of the persisted store that is not manual
\* carries the capture time of the most recent run that returned (time 0: the
\* scrape that left the initial store), and right after a run has returned the
\* records that are not manual are that run's scraped records and no others.
C3_NonManualFromLastRun ==
    /\ \A i \in DOMAIN StoreRecords(store) :
           StoreRecords(store)[i].manual # "true" =>
               StoreRecords(store)[i].scrapedAt = lastOkAt
    /\ \A p \in Procs :
           pc[p] = "done" => NonManual(StoreRecords(store)) = allScraped[p]

\* A store that held a leftover scraped record and a manual one has been
\* through two runs that returned records.
C3_Witness ==
    /\ pc["r1"] = "done"
    /\ now = 2
    /\ repeat
    /\ ~initManualOnly
    /\ manual0 # <<>>
    /\ allScraped["r1"] # <<>>
    /\ \A i \in DOMAIN allScraped["r1"] : allScraped["r1"][i].scrapedAt = 2
    /\ NonManual(StoreRecords(store)) = allScraped["r1"]

\* -------------------------------------------------------------------- C4
\* C4: from a store of manual records only, when the first two runs return and
\* gather the same records, the store after the second run is the manual
\* records followed by the second run's scraped records: no record of the
\* first run (capture time 1) is left and no scraped record occurs twice.
C4_SecondRunSupersedes ==
    \A p \in Procs :
        (pc[p] = "done" /\ now = 2 /\ repeat /\ initManualOnly) =>
            /\ store = ArrayStore(manual0 \o allScraped[p])
            /\ \A i \in DOMAIN store.value : store.value[i].scrapedAt # 1
            /\ \A i, j \in DOMAIN store.value :
                   (i # j /\ store.value[i].manual # "true") =>
                       store.value[i] # store.value[j]

C4_Witness ==
    /\ pc["r1"] = "done"
    /\ now = 2
    /\ repeat
    /\ initManualOnly
    /\ manual0 # <<>>
    /\ Len(allScraped["r1"]) = 2
    /\ store = ArrayStore(manual0 \o allScraped["r1"])

\* -------------------------------------------------------------------- C5
\* C5 as stated: no failure raised while a listing page is processed (opening
\* the page, navigation, scroll, extraction, closing the page) makes the run
\* fail; the run goes on to the store write.
C5_PageFailureNeverAborts ==
    \A p \in Procs :
        pc[p] = "failed" => result[p][2] \notin PageFailures

\* -------------------------------------------------------------------- C6
\* C6 as stated: the step in which a navigation fails adds no record and uses
\* no id, and the run does not end at the page whose navigation failed while
\* listing pages of enabled descriptors are still to come.
C6_NavFailureKeepsCrawling ==
    [][ \A p \in Procs :
            /\ (pc[p] = "goto" /\ pc'[p] = "closePage") =>
                   /\ products'[p] = products[p]
                   /\ scIdCounter'[p] = scIdCounter[p]
                   /\ allScraped'[p] = allScraped[p]
            /\ (pageErr[p] = "goto" /\ pc[p] = "closePage" /\ pc'[p] \in {"done", "failed"}) =>
                   LaterPages(p) = {} ]_vars

\* -------------------------------------------------------------------- C7
\* The brands and ids of a run's records when the descriptors `brands`, in
\* this order, get their blocks of ids from `start` on, 10 ids apart.
RECURSIVE Layout(_, _, _)
Layout(brands, recs, start) ==
    IF brands = <<>> THEN <<>>
    ELSE LET n == Len(OfBrand(recs, Head(brands)))
         IN [i \in 1..n |-> <<Head(brands), start + i - 1>>]
                \o Layout(Tail(brands), recs, start + n + IdGap)

\* The brands of the configuration without its disabled descriptors.
EnabledBrands ==
    LET en == SelectSeq(SCRAPER_CONFIGS, LAMBDA c : c.enabled)
    IN [i \in DOMAIN en |-> en[i].brand]

\* C7: a disabled descriptor is never navigated and contributes no record, and
\* the brands and ids of the records a run has gathered are the ones the
\* configuration without its disabled descriptors gives them.
C7_DisabledIsAbsent ==
    \A p \in Procs :
        /\ visited[p] \cap DisabledPages = {}
        /\ pc[p] \in {"write", "done"} =>
               /\ \A i \in DOMAIN allScraped[p] :
                      SCRAPER_CONFIGS[allScraped[p][i].brand].enabled
               /\ [i \in DOMAIN allScraped[p] |->
                      <<allScraped[p][i].brand, allScraped[p][i].id>>]
                      = Layout(EnabledBrands, allScraped[p], FirstScrapedId)

\* A run over a configuration whose first descriptor is disabled has gathered
\* two records of the second one, from id 1000 on.
C7_Witness ==
    /\ pc["r1"] = "done"
    /\ ~SCRAPER_CONFIGS[1].enabled
    /\ SCRAPER_CONFIGS[2].enabled
    /\ Len(allScraped["r1"]) = 2
    /\ allScraped["r1"][1].brand = 2
    /\ allScraped["r1"][1].id = FirstScrapedId
    /\ visited["r1"] = PagesOf(2)

C9_UnreadableStoreIsEmpty ==
    \A p \in Procs :
        startKind[p] \in {"absent", "corrupt"} =>
            /\ existing[p] = <<>>
            /\ result[p] # <<"error", "read">>
            /\ pc[p] = "done" =>
                   /\ store = ArrayStore(allScraped[p])
                   /\ result[p] = <<"value", allScraped[p]>>

C9_Witness ==
    /\ pc["r1"] = "done"
    /\ startKind["r1"] = "corrupt"
    /\ allScraped["r1"] # <<>>
    /\ store = ArrayStore(allScraped["r1"])

\* ------------------------------------------------------------------- C10
\* The ids that lie between the ids of descriptor a and those of descriptor b
\* and that no record of the run carries.
UnusedBetween(recs, a, b) ==
    { n \in (Max(Ids(OfBrand(recs, a))) + 1)..(Min(Ids(OfBrand(recs, b))) - 1) :
          n \notin Ids(recs) }

\* C10: when every manual record has an id below 1000, no record that is not
\* manual shares an id with a manual record in a catalog a run has written,
\* and in one run the id ranges of two descriptors do not overlap and have at
\* least 10 unused ids between them.
C10_RangesApart ==
    \A p \in Procs :
        /\ ((\A i \in Ids(manual0) : i < FirstScrapedId) /\ pc[p] = "done") =>
               Ids(ManualRecords(StoreRecords(store)))
                   \cap Ids(NonManual(StoreRecords(store))) = {}
        /\ \A a, b \in Brands(allScraped[p]) :
               a < b =>
                   /\ Max(Ids(OfBrand(allScraped[p], a))) < Min(Ids(OfBrand(allScraped[p], b)))
                   /\ Cardinality(UnusedBetween(allScraped[p], a, b)) >= IdGap

C10_Witness ==
    /\ pc["r1"] = "done"
    /\ now = 2
    /\ manual0 # <<>>
    /\ \A i \in Ids(manual0) : i < FirstScrapedId
    /\ Cardinality(Brands(allScraped["r1"])) = 2
    /\ Ids(allScraped["r1"]) = {FirstScrapedId, FirstScrapedId + 1 + IdGap}

\* ------------------------------------------------------------------- C11
\* The enabled descriptors that come before descriptor k.
EnabledBefore(k) ==
    Cardinality({ i \in DOMAIN SCRAPER_CONFIGS : i < k /\ SCRAPER_CONFIGS[i].enabled })

\* The records a run has gathered so far, in crawl order.
Gathered(p) == allScraped[p] \o products[p]

NonEmpty(items) == SelectSeq(items, LAMBDA n : n # "")

\* C11: at every point of a run, the i-th record gathered carries the id
\* 1000 + (i - 1) + 10 * (enabled descriptors before its own), has a non-empty
\* name, and the records come descriptor after descriptor; the counters have
\* used one id per record and 10 per enabled descriptor done; whatever a page
\* lists, it adds one record and one id per bundle with a non-empty name and
\* nothing for the others; the scraped ids of the merged catalog are strictly
\* increasing.
C11_IdLayout ==
    \A p \in Procs :
        /\ \A i \in DOMAIN Gathered(p) :
               /\ Gathered(p)[i].id = FirstScrapedId + (i - 1)
                                        + IdGap * EnabledBefore(Gathered(p)[i].brand)
               /\ Gathered(p)[i].name # ""
        /\ \A i, j \in DOMAIN Gathered(p) :
               i < j => Gathered(p)[i].brand <= Gathered(p)[j].brand
        /\ ci[p] >= 1 =>
               idCounter[p] = FirstScrapedId + Len(allScraped[p])
                                + IdGap * EnabledBefore(ci[p])
        /\ ui[p] >= 1 => scIdCounter[p] = idCounter[p] + Len(products[p])
        /\ pc[p] = "extract" =>
               \A items \in ItemLists :
                   LET r == FoldItems(Config(p), items, products[p], scIdCounter[p], now)
                   IN /\ Len(r.products) = Len(products[p]) + Len(NonEmpty(items))
                      /\ r.idCounter = scIdCounter[p] + Len(NonEmpty(items))
        /\ pc[p] = "done" =>
               \A i, j \in DOMAIN NonManual(result[p][2]) :
                   i < j => NonManual(result[p][2])[i].id < NonManual(result[p][2])[j].id

\* The first descriptor is enabled and gave no record (its pages failed or
\* listed bundles without a name); the two records of the second one carry the
\* ids 1010 and 1011.
C11_Witness ==
    /\ pc["r1"] = "done"
    /\ SCRAPER_CONFIGS[1].enabled
    /\ PagesOf(1) \subseteq visited["r1"]
    /\ Len(allScraped["r1"]) = 2
    /\ allScraped["r1"][1].brand = 2
    /\ allScraped["r1"][1].id = FirstScrapedId + IdGap
    /\ allScraped["r1"][2].id = FirstScrapedId + IdGap + 1

\* ------------------------------------------------------------------- C12
\* C12 as stated: no page resource is open between two listing pages (the one
\* before is released before the next is opened), none is open once the
\* browser has been closed, and none is open when the run has ended.
C12_NoPageLeftOpen ==
    \A p \in Procs :
        /\ pc[p] = "urls" => page[p] = "none"
        /\ browser[p] = "closed" => page[p] = "none"
        /\ Settled(p) => page[p] = "none"

\* ------------------------------------------------------------------- C13
\* C13 as stated: a listing page is opened only with the browser launched, the
\* store is written only with the browser closed, and every run that has
\* launched the browser has closed it when it ends, with an error or not.
C13_BrowserClosedOnEveryPath ==
    \A p \in Procs :
        /\ (visited[p] # {} \/ page[p] = "open") => browser[p] # "none"
        /\ pc[p] \in {"write", "done"} => browser[p] = "closed"
        /\ (Settled(p) /\ result[p] # <<"error", "launch">>) => browser[p] = "closed"

\* ------------------------------------------------------------------- C14
\* The statements of a run between the read of the store and its write.
Crawling(p) ==
    pc[p] \in {"launch", "configs", "urls", "goto", "scroll", "extract", "closePage"}

C15_ParsePriceIsWholeNumber ==
    fields.state = "built" =>
        /\ fields.parsed[1] = "number"
        /\ fields.parsed[2] \in Nat
        /\ (\A i \in DOMAIN rawItem.rawPrice : rawItem.rawPrice[i] \notin Digits) =>
               fields.parsed = Num(0)
        /\ rawItem.rawPrice = <<"1", ",", "2", "9", "9", ".", "5", "0">> => fields.parsed = Num(1300)
        /\ rawItem.rawPrice = <<"C", "a", "l", "l", " ", "f", "o", "r", " ", "p", "r", "i", "c", "e">> => fields.parsed = Num(0)

\* ------------------------------------------------------------------- C16
Colors == {"Black", "Gold", "Silver", "Tortoise", "Blue"}

\* The rows of the table whose keyword the text contains.
MatchingRows(lower) ==
    { k \in DOMAIN COLOR_MAP : includes(lower, COLOR_MAP[k].key) }

\* C16: normalizeColor gives one of the five colors for every raw text: the
\* color of the first row of the table, in table order, whose keyword the
\* lower-cased text contains, and Black when it contains none.
C16_FirstKeywordInTableOrder ==
    fields.state = "built" =>
        LET raw  == rawItem.rawColor
            rows == MatchingRows(toLowerCase(raw))
        IN /\ normalizeColor(raw) \in Colors
           /\ rows = {} => normalizeColor(raw) = "Black"
           /\ rows # {} => normalizeColor(raw) = COLOR_MAP[Min(rows)].val
           /\ raw # <<>> => fields.color = normalizeColor(raw)

\* "Golddark": gold comes first in the text, dark comes first in the table.
C16_Witness ==
    /\ fields.state = "built"
    /\ rawItem.rawColor = <<"G", "o", "l", "d", "d", "a", "r", "k">>
    /\ fields.color = "Black"

\* ------------------------------------------------------------------- C17
IsAbsoluteUrl(u) ==
    startsWith(u, <<"h", "t", "t", "p", "s", ":", "/", "/">>) \/ startsWith(u, <<"h", "t", "t", "p", ":", "/", "/">>)

\* C17 as stated: the imageUrl of a record is empty or absolute, whatever the
\* raw attribute was, and a protocol-relative "//host/path" is stored as
\* "https://host/path".
C17_ImageUrlAbsolute ==
    fields.state = "built" =>
        /\ fields.imageUrl = <<>> \/ IsAbsoluteUrl(fields.imageUrl)
        /\ startsWith(rawItem.imageUrl, <<"/", "/">>) =>
               fields.imageUrl = <<"h", "t", "t", "p", "s", ":">> \o rawItem.imageUrl

\* ------------------------------------------------------------------- C18
\* C18: the only step of a run that changes the store is its write, taken
\* when every descriptor has been crawled and the browser is closed; every
\* other step, and so every run that ends with an error before its write,
\* leaves the store as it was.
C18_OnlyTheWriteChangesTheStore ==
    [][ store' # store =>
            \E p \in Procs :
                /\ pc[p] = "write"
                /\ pc'[p] \in {"done", "failed"}
                /\ browser[p] = "closed"
                /\ ci[p] > Len(SCRAPER_CONFIGS)
                /\ Len(storeOps'[p]) = 2 ]_vars

\* The first run was rejected when it closed the browser, after it had
\* crawled every listing page; the store still is the array of manual records
\* it was.
C18_Witness ==
    /\ now = 1
    /\ pc["r1"] = "failed"
    /\ result["r1"] = <<"error", "closeBrowser">>
    /\ visited["r1"] = EnabledPages
    /\ visited["r1"] # {}
    /\ initManualOnly
    /\ manual0 # <<>>
    /\ store = ArrayStore(manual0)

\* ------------------------------------------------------------------- C19
\* C19: a run takes its manual records from the store in the step that starts
\* it and nowhere else; the catalog it writes is these manual records followed
\* by its scraped records, whatever the store holds at the moment of the
\* write: a record another writer has put there since the read is not in it.
C19_WritesWhatItReadAtStart ==
    [][ \A p \in Procs :
            /\ (pc[p] = "idle" /\ pc'[p] = "launch") =>
                   existing'[p] = ManualRecords(StoreRecords(store))
            /\ (pc[p] \notin {"idle", "done", "failed"} /\ pc'[p] # "failed") =>
                   existing'[p] = existing[p]
            /\ (pc[p] = "write" /\ pc'[p] = "done") =>
                   /\ store' = ArrayStore(existing[p] \o allScraped[p])
                   /\ ManualRecords(StoreRecords(store')) = existing[p]
                   /\ result'[p] = <<"value", existing[p] \o allScraped[p]>> ]_vars

\* The curation process has added its record during the crawl; the run has
\* written the catalog without it.
C19_Witness ==
    /\ pc["r1"] = "done"
    /\ overwritten
    /\ existing["r1"] # <<>>
    /\ allScraped["r1"] # <<>>
    /\ store = ArrayStore(existing["r1"] \o allScraped["r1"])
    /\ ~Holds(store, CuratedRecord)

\* ------------------------------------------------------------------- C20
\* C20: while the run that wrote last has not been taken off, and so when two
\* overlapping runs have both returned, the store is the merged catalog this
\* run returned; its records that are not manual are this run's scraped
\* records, in order, and no two of them share an id.
C20_LastWriterWins ==
    \A w \in Procs :
        (lastWriter = w /\ pc[w] = "done") =>
            /\ store = ArrayStore(result[w][2])
            /\ NonManual(StoreRecords(store)) = allScraped[w]
            /\ DistinctIds(NonManual(StoreRecords(store)))

\* Both runs have returned; r1 was still crawling when r2 started (a record
\* of r1 carries the capture time 2), the two runs gathered different records,
\* and r2 wrote last.
C20_Witness ==
    /\ pc["r1"] = "done"
    /\ pc["r2"] = "done"
    /\ Len(allScraped["r1"]) = 2
    /\ allScraped["r1"][2].scrapedAt = 2
    /\ Len(allScraped["r2"]) = 1
    /\ lastWriter = "r2"
    /\ store = ArrayStore(manual0 \o allScraped["r2"])
    /\ manual0 # <<>>

====
